---- MODULE Spec2Model ----
(***************************************************************************)
(* The relational operators `larger` and `smaller` of mathjs               *)
(* (src/function/relational/larger.js and its twin smaller.js): the table  *)
(* of typed signatures of each operator, the scalar comparisons, and the   *)
(* matrix rules that hand the operator itself to the element-wise          *)
(* combinators algorithm03/07/12/13/14.                                    *)
(*                                                                         *)
(* A call is one step: the dispatcher resolves the pair of operand kinds   *)
(* to one signature and the selected implementation runs to completion     *)
(* (returning a value or throwing).  The operands of the call are drawn    *)
(* from bounded sets in Init.                                              *)
(***************************************************************************)
EXTENDS Integers, Sequences, FiniteSets, TLC

VARIABLES
    name,    \* the operator called: "larger" or "smaller"
    args,    \* the two operands <<x, y>> of the call
    pc,      \* "call" before the call, "done" after it
    result,  \* what the call returned or threw
    rule     \* the signature whose implementation ran (<<>>: none)

vars == <<name, args, pc, result, rule>>

(***************************************************************************)
(* Bounds of the model.                                                    *)
(***************************************************************************)
\* a matrix operand has at most MaxCells coordinates
MaxCells == 2

(***************************************************************************)
(* Values.  Every value is a record with a `kind`.                         *)
(***************************************************************************)
Num(v) == [kind |-> "number", v |-> v]
Bool(b) == [kind |-> "boolean", b |-> b]
Big(v) == [kind |-> "BigNumber", v |-> v]
Frac(n, d) == [kind |-> "Fraction", n |-> n, d |-> d]
Cplx(re, im) == [kind |-> "Complex", re |-> re, im |-> im]
UnitOf(value, base) == [kind |-> "Unit", value |-> value, base |-> base]
\* a string is the sequence of its characters
Str(chars) == [kind |-> "string", chars |-> chars]

\* what a call throws
Thrown(error, f, detail) == [kind |-> "error", error |-> error, fn |-> f, detail |-> detail]
TypeMismatch(f, kx, ky) == Thrown("TypeMismatch", f, <<kx, ky>>)
DimensionMismatch(f, sa, sb) == Thrown("DimensionMismatch", f, <<sa, sb>>)
IsError(v) == v.kind = "error"

\* the implicit entry of a sparse matrix
zero == Num(0)

MatrixKinds == {"DenseMatrix", "SparseMatrix"}
CollectionKinds == MatrixKinds \cup {"Array"}

Min(S) == CHOOSE m \in S : \A n \in S : m <= n
Abs(i) == IF i < 0 THEN -i ELSE i
Max2(a, b) == IF a >= b THEN a ELSE b

(***************************************************************************)
(* Matrix storage.  Coordinates are <<i>> or <<i, j>>, counted from 1; a   *)
(* SparseMatrix keeps zero-based row indices and column pointers, as the   *)
(* compressed-column format does.                                          *)
(***************************************************************************)
Dense(size, data) == [kind |-> "DenseMatrix", size |-> size, data |-> data]
Sparse(size, values, index, ptr) ==
    [kind |-> "SparseMatrix", size |-> size, values |-> values, index |-> index, ptr |-> ptr]
\* a plain nested array; `size` is the nesting the array itself has
Arr(size, data) == [kind |-> "Array", size |-> size, data |-> data]

Cells(size) == IF Len(size) = 1 THEN size[1] ELSE size[1] * size[2]

RowMajor(size) ==
    IF Len(size) = 1
    THEN [k \in 1..size[1] |-> <<k>>]
    ELSE [k \in 1..(size[1] * size[2]) |-> <<((k - 1) \div size[2]) + 1, ((k - 1) % size[2]) + 1>>]

ColMajor(size) ==
    [k \in 1..(size[1] * size[2]) |-> <<((k - 1) % size[1]) + 1, ((k - 1) \div size[1]) + 1>>]

DenseGet(m, c) == IF Len(c) = 1 THEN m.data[c[1]] ELSE m.data[c[1]][c[2]]

DenseBuild(size, g(_)) ==
    IF Len(size) = 1
    THEN [i \in 1..size[1] |-> g(<<i>>)]
    ELSE [i \in 1..size[1] |-> [j \in 1..size[2] |-> g(<<i, j>>)]]

\* the slots of column c[2] of s are ptr[j]+1 .. ptr[j+1] (ptr counted from 0)
SparseSlots(s, c) == {k \in (s.ptr[c[2]] + 1)..s.ptr[c[2] + 1] : s.index[k] = c[1] - 1}
SparseHas(s, c) == SparseSlots(s, c) # {}
SparseGet(s, c) == IF SparseHas(s, c) THEN s.values[CHOOSE k \in SparseSlots(s, c) : TRUE] ELSE zero

\* a SparseMatrix holding val(c) at the coordinates c with keep(c), column by column
SparseFrom(size, keep(_), val(_)) ==
    LET cs == SelectSeq(ColMajor(size), keep)
    IN Sparse(size,
              [k \in 1..Len(cs) |-> val(cs[k])],
              [k \in 1..Len(cs) |-> cs[k][1] - 1],
              [j \in 1..(size[2] + 1) |-> Cardinality({k \in 1..Len(cs) : cs[k][2] < j})])

\* matrix(x) of an Array, and valueOf() of a matrix
matrix(a) == Dense(a.size, a.data)
toDense(s) == Dense(s.size, DenseBuild(s.size, LAMBDA c : SparseGet(s, c)))
toSparse(d) == SparseFrom(d.size, LAMBDA c : DenseGet(d, c) # zero, LAMBDA c : DenseGet(d, c))
valueOf(m) ==
    IF IsError(m) THEN m
    ELSE IF m.kind = "SparseMatrix" THEN Arr(m.size, toDense(m).data)
    ELSE Arr(m.size, m.data)

(***************************************************************************)
(* typed(name, {...}): the signatures in the order the source lists them,  *)
(* and the resolution of a pair of operand kinds to one of them.           *)
(***************************************************************************)
\* slips the table could have: a signature left out
signatures_without_Fraction ==
    << <<"boolean", "boolean">>, <<"number", "number">>, <<"BigNumber", "BigNumber">>,
       <<"Complex", "Complex">>, <<"Unit", "Unit">>,
       <<"SparseMatrix", "SparseMatrix">>, <<"SparseMatrix", "DenseMatrix">>,
       <<"DenseMatrix", "SparseMatrix">>, <<"DenseMatrix", "DenseMatrix">>,
       <<"Array", "Array">>, <<"Array", "Matrix">>, <<"Matrix", "Array">>,
       <<"SparseMatrix", "any">>, <<"DenseMatrix", "any">>,
       <<"any", "SparseMatrix">>, <<"any", "DenseMatrix">>,
       <<"Array", "any">>, <<"any", "Array">> >>

signatures_without_Array_Matrix ==
    << <<"boolean", "boolean">>, <<"number", "number">>, <<"BigNumber", "BigNumber">>,
       <<"Fraction", "Fraction">>, <<"Complex", "Complex">>, <<"Unit", "Unit">>,
       <<"SparseMatrix", "SparseMatrix">>, <<"SparseMatrix", "DenseMatrix">>,
       <<"DenseMatrix", "SparseMatrix">>, <<"DenseMatrix", "DenseMatrix">>,
       <<"Array", "Array">>, <<"Matrix", "Array">>,
       <<"SparseMatrix", "any">>, <<"DenseMatrix", "any">>,
       <<"any", "SparseMatrix">>, <<"any", "DenseMatrix">>,
       <<"Array", "any">>, <<"any", "Array">> >>

signatures ==
    << <<"boolean", "boolean">>, <<"number", "number">>, <<"BigNumber", "BigNumber">>,
       <<"Fraction", "Fraction">>, <<"Complex", "Complex">>, <<"Unit", "Unit">>,
       <<"SparseMatrix", "SparseMatrix">>, <<"SparseMatrix", "DenseMatrix">>,
       <<"DenseMatrix", "SparseMatrix">>, <<"DenseMatrix", "DenseMatrix">>,
       <<"Array", "Array">>, <<"Array", "Matrix">>, <<"Matrix", "Array">>,
       <<"SparseMatrix", "any">>, <<"DenseMatrix", "any">>,
       <<"any", "SparseMatrix">>, <<"any", "DenseMatrix">>,
       <<"Array", "any">>, <<"any", "Array">> >>

Matches(token, kind) ==
    \/ token = "any"
    \/ token = kind
    \/ token = "Matrix" /\ kind \in MatrixKinds

\* a signature naming kinds in both positions wins over one with a wildcard;
\* among equals the one listed first.  <<>>: no signature matches.
Resolve(kx, ky) ==
    LET matching == {i \in 1..Len(signatures) :
                        Matches(signatures[i][1], kx) /\ Matches(signatures[i][2], ky)}
        exact == {i \in matching : signatures[i][1] # "any" /\ signatures[i][2] # "any"}
    IN IF exact # {} THEN signatures[Min(exact)]
       ELSE IF matching # {} THEN signatures[Min(matching)]
       ELSE <<>>

\* the numerical value of a string: an optional sign, then decimal digits
Digit(ch) == CASE ch = "0" -> 0 [] ch = "1" -> 1 [] ch = "2" -> 2 [] ch = "3" -> 3
               [] ch = "4" -> 4 [] ch = "5" -> 5 [] ch = "6" -> 6 [] ch = "7" -> 7
               [] ch = "8" -> 8 [] ch = "9" -> 9

RECURSIVE Digits(_)
Digits(chars) ==
    IF chars = <<>> THEN 0
    ELSE 10 * Digits(SubSeq(chars, 1, Len(chars) - 1)) + Digit(chars[Len(chars)])

numericValue(v) ==
    IF v.kind # "string" THEN v
    ELSE IF v.chars[1] = "-" THEN Num(0 - Digits(Tail(v.chars)))
    ELSE Num(Digits(v.chars))

\* the signature a call runs and the operands it runs on: the operands as
\* given when a signature matches their kinds, else with strings replaced
\* by their numerical value
Dispatch(x, y) ==
    LET direct == Resolve(x.kind, y.kind)
        cx == numericValue(x)
        cy == numericValue(y)
    IN IF direct # <<>> THEN [sig |-> direct, x |-> x, y |-> y]
       ELSE [sig |-> Resolve(cx.kind, cy.kind), x |-> cx, y |-> cy]

RECURSIVE Call(_, _, _)

(***************************************************************************)
(* The element-wise combinators.  Each validates the dimensions, calls the *)
(* callback on the coordinates it visits and returns a new matrix; what    *)
(* the callback throws leaves the combinator as it is.                     *)
(***************************************************************************)
\* the value a sparse result leaves implicit
CanonicalZero(v) ==
    \/ v.kind = "boolean" /\ v.b = FALSE
    \/ v.kind \in {"number", "BigNumber"} /\ v.v = 0

\* the callback on a pair of entries; inverse swaps its arguments
Callback(f, u, v, inverse) == Call(f, IF inverse THEN v ELSE u, IF inverse THEN u ELSE v)

\* what a combinator returns for the callback's results rs along the
\* coordinates it visited: the first value thrown, else the matrix built
Throws(rs) == \E k \in 1..Len(rs) : IsError(rs[k])
FirstThrown(rs) == rs[Min({k \in 1..Len(rs) : IsError(rs[k])})]

\* the place of coordinate c in RowMajor(size) and in ColMajor(size)
RowMajorAt(size, c) == IF Len(size) = 1 THEN c[1] ELSE (c[1] - 1) * size[2] + c[2]
ColMajorAt(size, c) == (c[2] - 1) * size[1] + c[1]

\* DenseMatrix x DenseMatrix -> DenseMatrix, C(i,j) = f(Aij, Bij)
algorithm13(a, b, f) ==
    IF a.size # b.size THEN DimensionMismatch(f, a.size, b.size)
    ELSE LET cs == RowMajor(a.size)
             rs == [k \in 1..Len(cs) |-> Callback(f, DenseGet(a, cs[k]), DenseGet(b, cs[k]), FALSE)]
         IN IF Throws(rs) THEN FirstThrown(rs)
            ELSE Dense(a.size, DenseBuild(a.size, LAMBDA c : rs[RowMajorAt(a.size, c)]))

\* SparseMatrix x SparseMatrix -> SparseMatrix: per column, the rows stored in
\* either operand; a row stored in neither is not visited, and a result that
\* is the canonical zero is not stored
algorithm07(a, b, f) ==
    IF a.size # b.size THEN DimensionMismatch(f, a.size, b.size)
    ELSE LET all == ColMajor(a.size)
             visit(c) == SparseHas(a, c) \/ SparseHas(b, c)
             rs == [k \in 1..Len(all) |->
                        IF visit(all[k])
                        THEN Callback(f, SparseGet(a, all[k]), SparseGet(b, all[k]), FALSE)
                        ELSE zero]
             keep(c) == visit(c) /\ ~CanonicalZero(rs[ColMajorAt(a.size, c)])
         IN IF Throws(rs) THEN FirstThrown(rs)
            ELSE SparseFrom(a.size, keep, LAMBDA c : rs[ColMajorAt(a.size, c)])

\* DenseMatrix x SparseMatrix -> DenseMatrix, every coordinate visited;
\* inverse: the sparse entry is the left argument of the callback
algorithm03(denseMatrix, sparseMatrix, f, inverse) ==
    IF denseMatrix.size # sparseMatrix.size
    THEN DimensionMismatch(f, denseMatrix.size, sparseMatrix.size)
    ELSE LET size == denseMatrix.size
             cs == ColMajor(size)
             rs == [k \in 1..Len(cs) |->
                        Callback(f, DenseGet(denseMatrix, cs[k]), SparseGet(sparseMatrix, cs[k]), inverse)]
         IN IF Throws(rs) THEN FirstThrown(rs)
            ELSE Dense(size, DenseBuild(size, LAMBDA c : rs[ColMajorAt(size, c)]))

\* SparseMatrix x scalar: sparse when the callback maps the implicit entry
\* to the canonical zero (only the stored entries are visited), dense
\* otherwise; inverse: the scalar is the left argument of the callback
algorithm12(s, b, f, inverse) ==
    LET all == ColMajor(s.size)
        \* rs[1] is testValue, rs[k + 1] the result at the k-th coordinate
        rs == [k \in 1..(Len(all) + 1) |->
                   IF k = 1 THEN Callback(f, zero, b, inverse)
                   ELSE IF SparseHas(s, all[k - 1])
                   THEN Callback(f, SparseGet(s, all[k - 1]), b, inverse)
                   ELSE zero]
        testValue == rs[1]
        at(c) == rs[ColMajorAt(s.size, c) + 1]
        keep(c) == SparseHas(s, c) /\ ~CanonicalZero(at(c))
        fill(c) == IF SparseHas(s, c) THEN at(c) ELSE testValue
    IN IF Throws(rs) THEN FirstThrown(rs)
       ELSE IF CanonicalZero(testValue) THEN SparseFrom(s.size, keep, at)
       ELSE Dense(s.size, DenseBuild(s.size, fill))

\* DenseMatrix x scalar -> DenseMatrix; inverse: the scalar is the left
\* argument of the callback
algorithm14(a, b, f, inverse) ==
    LET cs == RowMajor(a.size)
        rs == [k \in 1..Len(cs) |-> Callback(f, DenseGet(a, cs[k]), b, inverse)]
    IN IF Throws(rs) THEN FirstThrown(rs)
       ELSE Dense(a.size, DenseBuild(a.size, LAMBDA c : rs[RowMajorAt(a.size, c)]))

(***************************************************************************)
(* The scalar collaborators.                                               *)
(***************************************************************************)
\* config().epsilon, the relative tolerance, as a fraction num/den
epsilon == [num |-> 1, den |-> 2]

\* equal, or the difference is at most epsilon times the larger magnitude
nearlyEqual(p, q, eps) ==
    \/ p = q
    \/ Abs(p - q) * eps.den <= Max2(Abs(p), Abs(q)) * eps.num

bigNearlyEqual(p, q, eps) ==
    \/ p = q
    \/ Abs(p - q) * eps.den <= Max2(Abs(p), Abs(q)) * eps.num

\* Fraction.compare: the sign of x - y (denominators are positive)
compare(p, q) ==
    LET d == p.n * q.d - q.n * p.d
    IN IF d > 0 THEN 1 ELSE IF d < 0 THEN -1 ELSE 0

\* a boolean as the number JavaScript's > and < compare it as
ToNumber(b) == IF b THEN 1 ELSE 0

(***************************************************************************)
(* The implementations of the signatures of larger and of smaller.         *)
(***************************************************************************)
larger_boolean_boolean(x, y) == Bool(ToNumber(x.b) > ToNumber(y.b))
smaller_boolean_boolean(x, y) == Bool(ToNumber(x.b) < ToNumber(y.b))

\* a slip: the tolerance test not negated
smaller_number_number_nearly(x, y) == Bool(x.v < y.v /\ nearlyEqual(x.v, y.v, epsilon))
larger_number_number(x, y) == Bool(x.v > y.v /\ ~nearlyEqual(x.v, y.v, epsilon))
smaller_number_number(x, y) == Bool(x.v < y.v /\ ~nearlyEqual(x.v, y.v, epsilon))

larger_BigNumber_BigNumber(x, y) == Bool(x.v > y.v /\ ~bigNearlyEqual(x.v, y.v, epsilon))
smaller_BigNumber_BigNumber(x, y) == Bool(x.v < y.v /\ ~bigNearlyEqual(x.v, y.v, epsilon))

\* a slip: equal fractions counted as larger
larger_Fraction_Fraction_or_equal(x, y) == Bool(compare(x, y) >= 0)
larger_Fraction_Fraction(x, y) == Bool(compare(x, y) = 1)
smaller_Fraction_Fraction(x, y) == Bool(compare(x, y) = -1)

\* a slip: complex numbers compared as never ordered instead of refused
Complex_Complex_unordered(f, x, y) == Bool(FALSE)
Complex_Complex(f, x, y) ==
    Thrown("TypeError", "", <<"No ordering relation is defined for complex numbers">>)

Unit_Unit(f, x, y) ==
    IF x.base # y.base
    THEN Thrown("Error", "", <<"Cannot compare units with different base">>)
    ELSE Call(f, x.value, y.value)

\* slips a matrix rule could have: operands handed over in the wrong order, or
\* the order flag not matching the operands
SparseMatrix_SparseMatrix_swapped(f, x, y) == algorithm07(y, x, f)
SparseMatrix_DenseMatrix_unflagged(f, x, y) == algorithm03(y, x, f, FALSE)

SparseMatrix_SparseMatrix(f, x, y) == algorithm07(x, y, f)
SparseMatrix_DenseMatrix(f, x, y) == algorithm03(y, x, f, TRUE)
DenseMatrix_SparseMatrix(f, x, y) == algorithm03(x, y, f, FALSE)
\* a slip: the right matrix taken for a scalar
DenseMatrix_DenseMatrix_scalar(f, x, y) == algorithm14(x, y, f, FALSE)
DenseMatrix_DenseMatrix(f, x, y) == algorithm13(x, y, f)

Array_Array(f, x, y) == valueOf(Call(f, matrix(x), matrix(y)))
Array_Matrix(f, x, y) == Call(f, matrix(x), y)
Matrix_Array(f, x, y) == Call(f, x, matrix(y))

SparseMatrix_any_flagged(f, x, y) == algorithm12(x, y, f, TRUE)
\* a slip an Array rule could have: the matrix result handed back as it is
Array_any_unconverted(f, x, y) == algorithm14(matrix(x), y, f, FALSE)

SparseMatrix_any(f, x, y) == algorithm12(x, y, f, FALSE)
DenseMatrix_any(f, x, y) == algorithm14(x, y, f, FALSE)
any_SparseMatrix(f, x, y) == algorithm12(y, x, f, TRUE)
any_DenseMatrix(f, x, y) == algorithm14(y, x, f, TRUE)
Array_any(f, x, y) == valueOf(algorithm14(matrix(x), y, f, FALSE))
any_Array(f, x, y) == valueOf(algorithm14(matrix(y), x, f, TRUE))

\* the implementation registered under signature sig of operator f
Invoke(sig, f, x, y) ==
    CASE sig = <<"boolean", "boolean">> ->
            IF f = "larger" THEN larger_boolean_boolean(x, y) ELSE smaller_boolean_boolean(x, y)
      [] sig = <<"number", "number">> ->
            IF f = "larger" THEN larger_number_number(x, y) ELSE smaller_number_number(x, y)
      [] sig = <<"BigNumber", "BigNumber">> ->
            IF f = "larger" THEN larger_BigNumber_BigNumber(x, y)
            ELSE smaller_BigNumber_BigNumber(x, y)
      [] sig = <<"Fraction", "Fraction">> ->
            IF f = "larger" THEN larger_Fraction_Fraction(x, y)
            ELSE smaller_Fraction_Fraction(x, y)
      [] sig = <<"Complex", "Complex">> -> Complex_Complex(f, x, y)
      [] sig = <<"Unit", "Unit">> -> Unit_Unit(f, x, y)
      [] sig = <<"SparseMatrix", "SparseMatrix">> -> SparseMatrix_SparseMatrix(f, x, y)
      [] sig = <<"SparseMatrix", "DenseMatrix">> -> SparseMatrix_DenseMatrix(f, x, y)
      [] sig = <<"DenseMatrix", "SparseMatrix">> -> DenseMatrix_SparseMatrix(f, x, y)
      [] sig = <<"DenseMatrix", "DenseMatrix">> -> DenseMatrix_DenseMatrix(f, x, y)
      [] sig = <<"Array", "Array">> -> Array_Array(f, x, y)
      [] sig = <<"Array", "Matrix">> -> Array_Matrix(f, x, y)
      [] sig = <<"Matrix", "Array">> -> Matrix_Array(f, x, y)
      [] sig = <<"SparseMatrix", "any">> -> SparseMatrix_any(f, x, y)
      [] sig = <<"DenseMatrix", "any">> -> DenseMatrix_any(f, x, y)
      [] sig = <<"any", "SparseMatrix">> -> any_SparseMatrix(f, x, y)
      [] sig = <<"any", "DenseMatrix">> -> any_DenseMatrix(f, x, y)
      [] sig = <<"Array", "any">> -> Array_any(f, x, y)
      [] sig = <<"any", "Array">> -> any_Array(f, x, y)

\* larger(x, y) / smaller(x, y): the typed function
Call(f, x, y) ==
    LET d == Dispatch(x, y)
    IN IF d.sig = <<>> THEN TypeMismatch(f, x.kind, y.kind)
       ELSE Invoke(d.sig, f, d.x, d.y)

(***************************************************************************)
(* The operands a call is given.                                           *)
(***************************************************************************)
Operators == {"larger", "smaller"}

Numbers == {Num(v) : v \in {-1, 0, 1, 2, 3}}
UnitValues == {Num(1), Num(2), Big(1)}
Scalars ==
    Numbers
    \cup {Bool(FALSE), Bool(TRUE)}
    \cup {Big(1), Big(2)}
    \cup {Frac(1, 2), Frac(1, 1)}
    \cup {Cplx(1, 1)}
    \cup {UnitOf(v, "LENGTH") : v \in UnitValues} \cup {UnitOf(Num(1), "MASS")}
    \cup {Str(<<"2">>), Str(<<"-", "1">>)}

\* what a matrix holds at a coordinate
Elements == {Num(0), Num(1), Cplx(1, 1)}

Sizes1 == {<<n>> : n \in 1..MaxCells}
Sizes2 == {s \in (1..MaxCells) \X (1..MaxCells) : s[1] * s[2] <= MaxCells}

DataOf(size) ==
    IF Len(size) = 1 THEN [1..size[1] -> Elements]
    ELSE [1..size[1] -> [1..size[2] -> Elements]]

DenseMatrices == UNION {{Dense(size, data) : data \in DataOf(size)} : size \in Sizes1 \cup Sizes2}
SparseMatrices == UNION {{toSparse(Dense(size, data)) : data \in DataOf(size)} : size \in Sizes2}
Arrays == {Arr(m.size, m.data) : m \in DenseMatrices}

Operands == Scalars \cup DenseMatrices \cup SparseMatrices \cup Arrays

(***************************************************************************)
(* The call.                                                               *)
(***************************************************************************)
NoResult == [kind |-> "none"]

Init ==
    /\ name \in Operators
    /\ args \in Operands \X Operands
    /\ pc = "call"
    /\ result = NoResult
    /\ rule = <<>>

\* the typed function resolves the operands of the call to signature sig
Selected(sig) ==
    /\ pc = "call"
    /\ Dispatch(args[1], args[2]).sig = sig

\* the call is over, having run the implementation of sig
Return(sig) ==
    /\ rule' = sig
    /\ pc' = "done"
    /\ UNCHANGED <<name, args>>

Run_boolean_boolean ==
    /\ Selected(<<"boolean", "boolean">>)
    /\ result' = Call(name, args[1], args[2])
    /\ Return(<<"boolean", "boolean">>)

Run_number_number ==
    /\ Selected(<<"number", "number">>)
    /\ result' = Call(name, args[1], args[2])
    /\ Return(<<"number", "number">>)

Run_BigNumber_BigNumber ==
    /\ Selected(<<"BigNumber", "BigNumber">>)
    /\ result' = Call(name, args[1], args[2])
    /\ Return(<<"BigNumber", "BigNumber">>)

Run_Fraction_Fraction ==
    /\ Selected(<<"Fraction", "Fraction">>)
    /\ result' = Call(name, args[1], args[2])
    /\ Return(<<"Fraction", "Fraction">>)

Run_Complex_Complex ==
    /\ Selected(<<"Complex", "Complex">>)
    /\ result' = Call(name, args[1], args[2])
    /\ Return(<<"Complex", "Complex">>)

Run_Unit_Unit ==
    /\ Selected(<<"Unit", "Unit">>)
    /\ result' = Call(name, args[1], args[2])
    /\ Return(<<"Unit", "Unit">>)

Run_SparseMatrix_SparseMatrix ==
    /\ Selected(<<"SparseMatrix", "SparseMatrix">>)
    /\ result' = Call(name, args[1], args[2])
    /\ Return(<<"SparseMatrix", "SparseMatrix">>)

Run_SparseMatrix_DenseMatrix ==
    /\ Selected(<<"SparseMatrix", "DenseMatrix">>)
    /\ result' = Call(name, args[1], args[2])
    /\ Return(<<"SparseMatrix", "DenseMatrix">>)

Run_DenseMatrix_SparseMatrix ==
    /\ Selected(<<"DenseMatrix", "SparseMatrix">>)
    /\ result' = Call(name, args[1], args[2])
    /\ Return(<<"DenseMatrix", "SparseMatrix">>)

Run_DenseMatrix_DenseMatrix ==
    /\ Selected(<<"DenseMatrix", "DenseMatrix">>)
    /\ result' = Call(name, args[1], args[2])
    /\ Return(<<"DenseMatrix", "DenseMatrix">>)

Run_Array_Array ==
    /\ Selected(<<"Array", "Array">>)
    /\ result' = Call(name, args[1], args[2])
    /\ Return(<<"Array", "Array">>)

Run_Array_Matrix ==
    /\ Selected(<<"Array", "Matrix">>)
    /\ result' = Call(name, args[1], args[2])
    /\ Return(<<"Array", "Matrix">>)

Run_Matrix_Array ==
    /\ Selected(<<"Matrix", "Array">>)
    /\ result' = Call(name, args[1], args[2])
    /\ Return(<<"Matrix", "Array">>)

Run_SparseMatrix_any ==
    /\ Selected(<<"SparseMatrix", "any">>)
    /\ result' = Call(name, args[1], args[2])
    /\ Return(<<"SparseMatrix", "any">>)

Run_DenseMatrix_any ==
    /\ Selected(<<"DenseMatrix", "any">>)
    /\ result' = Call(name, args[1], args[2])
    /\ Return(<<"DenseMatrix", "any">>)

Run_any_SparseMatrix ==
    /\ Selected(<<"any", "SparseMatrix">>)
    /\ result' = Call(name, args[1], args[2])
    /\ Return(<<"any", "SparseMatrix">>)

Run_any_DenseMatrix ==
    /\ Selected(<<"any", "DenseMatrix">>)
    /\ result' = Call(name, args[1], args[2])
    /\ Return(<<"any", "DenseMatrix">>)

Run_Array_any ==
    /\ Selected(<<"Array", "any">>)
    /\ result' = Call(name, args[1], args[2])
    /\ Return(<<"Array", "any">>)

Run_any_Array ==
    /\ Selected(<<"any", "Array">>)
    /\ result' = Call(name, args[1], args[2])
    /\ Return(<<"any", "Array">>)

\* no signature matches the operands: the typed function throws
Run_unmatched ==
    /\ Selected(<<>>)
    /\ result' = TypeMismatch(name, args[1].kind, args[2].kind)
    /\ Return(<<>>)

Next ==
    \/ Run_boolean_boolean
    \/ Run_number_number
    \/ Run_BigNumber_BigNumber
    \/ Run_Fraction_Fraction
    \/ Run_Complex_Complex
    \/ Run_Unit_Unit
    \/ Run_SparseMatrix_SparseMatrix
    \/ Run_SparseMatrix_DenseMatrix
    \/ Run_DenseMatrix_SparseMatrix
    \/ Run_DenseMatrix_DenseMatrix
    \/ Run_Array_Array
    \/ Run_Array_Matrix
    \/ Run_Matrix_Array
    \/ Run_SparseMatrix_any
    \/ Run_DenseMatrix_any
    \/ Run_any_SparseMatrix
    \/ Run_any_DenseMatrix
    \/ Run_Array_any
    \/ Run_any_Array
    \/ Run_unmatched

Spec == Init /\ [][Next]_vars

(***************************************************************************)
(* Vocabulary of the properties.                                           *)
(***************************************************************************)
X == args[1]
Y == args[2]
Done == pc = "done"
Other(f) == IF f = "larger" THEN "smaller" ELSE "larger"

IsMatrix(v) == v.kind \in MatrixKinds
IsCollection(v) == v.kind \in CollectionKinds
CoordSet(size) == {RowMajor(size)[k] : k \in 1..Cells(size)}

\* the operand's entry at c: a matrix's entry (an implicit sparse entry reads
\* as zero), a scalar itself
EntryAt(v, c) ==
    IF v.kind = "SparseMatrix" THEN SparseGet(v, c)
    ELSE IF IsCollection(v) THEN DenseGet(v, c)
    ELSE v

\* a result's entry at c; an implicit entry of a sparse result reads as false,
\* the canonical zero of a comparison
ResultAt(r, c) ==
    IF r.kind = "SparseMatrix"
    THEN IF SparseHas(r, c) THEN SparseGet(r, c) ELSE Bool(FALSE)
    ELSE DenseGet(r, c)

AsDense(m) == IF m.kind = "SparseMatrix" THEN toDense(m) ELSE m
ResultAsDense(r) == Dense(r.size, DenseBuild(r.size, LAMBDA c : ResultAt(r, c)))

\* the size of the collection operand(s) of the call
CallSize == IF IsCollection(X) THEN X.size ELSE Y.size

\* op(x_c, y_c), the operator on the operands' entries at c, in call order
Expected(c) == Call(name, EntryAt(X, c), EntryAt(Y, c))

\* the coordinates of a result that hold true
TrueEntries(r) ==
    IF IsError(r) THEN {}
    ELSE IF r.kind = "boolean" THEN (IF r.b THEN {<<>>} ELSE {})
    ELSE {c \in CoordSet(r.size) : ResultAt(r, c) = Bool(TRUE)}

SparseRules == {<<"SparseMatrix", "any">>, <<"any", "SparseMatrix">>}

\* testValue of a sparse x scalar call: the operator on the implicit zero and
\* the scalar, in call order
TestValue == IF rule = <<"SparseMatrix", "any">> THEN Call(name, zero, Y) ELSE Call(name, X, zero)

WellFormedSparse(m) ==
    LET rows == m.size[1]
        columns == m.size[2]
    IN /\ Len(m.index) = Len(m.values)
       /\ Len(m.ptr) = columns + 1
       /\ m.ptr[1] = 0
       /\ m.ptr[columns + 1] = Len(m.values)
       /\ \A j \in 1..columns : m.ptr[j] <= m.ptr[j + 1]
       /\ \A k \in 1..Len(m.index) : m.index[k] \in 0..(rows - 1)
       /\ \A j \in 1..columns :
            \A k \in (m.ptr[j] + 1)..(m.ptr[j + 1] - 1) : m.index[k] < m.index[k + 1]

(***************************************************************************)
(* C1.  Element-wise semantics, operand order kept, whatever the storage.  *)
(***************************************************************************)
C1_Case ==
    /\ Done
    /\ X.kind # "Array" /\ Y.kind # "Array"
    /\ IsMatrix(X) \/ IsMatrix(Y)
    /\ IsMatrix(X) /\ IsMatrix(Y) => X.size = Y.size

\* C1: when at least one operand is a DenseMatrix or SparseMatrix (the other
\* a matrix of the same shape or a scalar), the result read as a dense matrix
\* holds op(x_c, y_c) at every coordinate c, the left operand of the call on
\* the left of op; if op throws at some coordinate the call throws; and for
\* two matrices the result equals the dense/dense path on toDense of both.
C1_ElementWise ==
    C1_Case =>
        /\ IF \E c \in CoordSet(CallSize) : IsError(Expected(c))
           THEN IsError(result)
           ELSE /\ IsMatrix(result)
                /\ result.size = CallSize
                /\ \A c \in CoordSet(CallSize) : ResultAt(result, c) = Expected(c)
        /\ (IsMatrix(X) /\ IsMatrix(Y)) =>
              LET densePath == algorithm13(AsDense(X), AsDense(Y), name)
              IN IF IsError(densePath) THEN IsError(result)
                 ELSE ~IsError(result) /\ ResultAsDense(result) = densePath

\* a sparse/dense call whose result depends on the operand order
C1_Witness ==
    /\ C1_Case
    /\ rule = <<"SparseMatrix", "DenseMatrix">>
    /\ ~IsError(result)
    /\ \E c \in CoordSet(CallSize) :
          /\ ResultAt(result, c) = Bool(TRUE)
          /\ Call(name, EntryAt(Y, c), EntryAt(X, c)) = Bool(FALSE)

(***************************************************************************)
(* C2.  Sparsity law of sparse x scalar.                                   *)
(***************************************************************************)
C2_Case == Done /\ rule \in SparseRules
C2_Sparse == IF rule = <<"SparseMatrix", "any">> THEN X ELSE Y
C2_NoThrow == \A c \in CoordSet(C2_Sparse.size) : SparseHas(C2_Sparse, c) => ~IsError(Expected(c))

\* C2: for a SparseMatrix S and a scalar s with testValue = op(0, s)
\* ('SparseMatrix, any') or op(s, 0) ('any, SparseMatrix'), when no element
\* call throws: testValue false gives a SparseMatrix of the same shape with at
\* most nnz(S) entries; testValue true gives a DenseMatrix of the same shape
\* holding testValue where S is implicit and op of the stored value and s, in
\* call order, where S is explicit.
C2_SparsityLaw ==
    C2_Case /\ ~IsError(TestValue) /\ C2_NoThrow =>
        IF TestValue = Bool(FALSE)
        THEN /\ result.kind = "SparseMatrix"
             /\ result.size = C2_Sparse.size
             /\ Len(result.values) <= Len(C2_Sparse.values)
        ELSE /\ result.kind = "DenseMatrix"
             /\ result.size = C2_Sparse.size
             /\ \A c \in CoordSet(C2_Sparse.size) :
                   DenseGet(result, c) = IF SparseHas(C2_Sparse, c) THEN Expected(c) ELSE TestValue

\* scalar x sparse densifies a matrix that has stored and implicit entries
C2_Witness ==
    /\ C2_Case
    /\ rule = <<"any", "SparseMatrix">>
    /\ result.kind = "DenseMatrix"
    /\ \E c \in CoordSet(Y.size) : SparseHas(Y, c)
    /\ \E c \in CoordSet(Y.size) : ~SparseHas(Y, c)

(***************************************************************************)
(* C3.  A sparse result is well formed.                                    *)
(***************************************************************************)
C3_Case == Done /\ result.kind = "SparseMatrix"

\* C3: every SparseMatrix a combinator returns stores no false, has strictly
\* increasing row indices within each column and a non-decreasing column
\* pointer from 0 to the number of values; it stores exactly the coordinates
\* whose result is true.
C3_SparseWellFormed ==
    C3_Case =>
        /\ WellFormedSparse(result)
        /\ \A k \in 1..Len(result.values) : ~CanonicalZero(result.values[k])
        /\ \A c \in CoordSet(result.size) :
              /\ SparseHas(result, c) <=> Expected(c) = Bool(TRUE)
              /\ SparseHas(result, c) => SparseGet(result, c) = Bool(TRUE)

\* sparse x sparse keeps one visited coordinate and drops another
C3_Witness ==
    /\ C3_Case
    /\ rule = <<"SparseMatrix", "SparseMatrix">>
    /\ \E c \in CoordSet(result.size) : SparseHas(result, c)
    /\ \E c \in CoordSet(result.size) :
          (SparseHas(X, c) \/ SparseHas(Y, c)) /\ ~SparseHas(result, c)

(***************************************************************************)
(* C4.  Array operands.                                                    *)
(***************************************************************************)
C4_Case == Done /\ (X.kind = "Array" \/ Y.kind = "Array")

\* an Array operand replaced by the equivalent DenseMatrix
Normalized(v) == IF v.kind = "Array" THEN matrix(v) ELSE v
\* the call with its Array operands replaced
ViaMatrix == Call(name, Normalized(X), Normalized(Y))

MixedRules == {<<"Array", "Matrix">>, <<"Matrix", "Array">>}

\* C4 as the specification states it: whenever an operand is an Array the call returns a plain
\* Array, the matrix result of the call on the equivalent DenseMatrix
\* converted back (or throws what that call throws).
C4_Original ==
    C4_Case =>
        IF IsError(ViaMatrix) THEN result = ViaMatrix
        ELSE result.kind = "Array" /\ result = valueOf(ViaMatrix)

\* C4: with an Array operand the call gives what it gives with the Array
\* replaced by the equivalent DenseMatrix, entry by entry op(x_c, y_c); the
\* rules 'Array, Array', 'Array, any' and 'any, Array' convert that result
\* back, returning a plain Array, and the rules 'Array, Matrix' and
\* 'Matrix, Array' return it as the matrix it is.
C4_ArrayNormalization ==
    C4_Case =>
        /\ rule \in MixedRules => result = ViaMatrix
        /\ rule \notin MixedRules => result = valueOf(ViaMatrix)
        /\ ~IsError(result) =>
              /\ result.kind = (IF rule \in MixedRules THEN "DenseMatrix" ELSE "Array")
              /\ result.size = CallSize
              /\ \A c \in CoordSet(CallSize) : DenseGet(result, c) = Expected(c)

\* an Array against a matrix returns a matrix
C4_Witness ==
    /\ C4_Case
    /\ rule = <<"Array", "Matrix">>
    /\ Y.kind = "SparseMatrix"
    /\ result.kind = "DenseMatrix"
    /\ \E c \in CoordSet(CallSize) : DenseGet(result, c) = Bool(TRUE)

(***************************************************************************)
(* C5.  DimensionMismatch exactly when the shapes differ.                  *)
(***************************************************************************)
C5_Case == Done /\ IsCollection(X) /\ IsCollection(Y)

IsDimensionMismatch(r) == IsError(r) /\ r.error = "DimensionMismatch"

\* C5: for two operands that are each a DenseMatrix, a SparseMatrix or an
\* Array, the call throws DimensionMismatch if their sizes differ (in an
\* extent or in rank) and does not throw it if they are equal.
C5_DimensionMismatch ==
    C5_Case => (X.size # Y.size <=> IsDimensionMismatch(result))

\* a matrix against an Array of another rank
C5_Witness ==
    /\ C5_Case
    /\ rule = <<"Matrix", "Array">>
    /\ Len(X.size) # Len(Y.size)
    /\ IsDimensionMismatch(result)

(***************************************************************************)
(* C6.  What the operator throws on an entry aborts the call.              *)
(***************************************************************************)
C6_Case ==
    /\ Done
    /\ IsCollection(X) \/ IsCollection(Y)
    /\ IsCollection(X) /\ IsCollection(Y) => X.size = Y.size

\* the coordinates at which the combinator of the call calls the operator
Visited(c) ==
    IF X.kind = "SparseMatrix" /\ Y.kind = "SparseMatrix" THEN SparseHas(X, c) \/ SparseHas(Y, c)
    ELSE IF rule \in SparseRules THEN SparseHas(C2_Sparse, c)
    ELSE TRUE

VisitedCoords == {c \in CoordSet(CallSize) : Visited(c)}
ComplexPair(c) == EntryAt(X, c).kind = "Complex" /\ EntryAt(Y, c).kind = "Complex"
TestValueThrows == rule \in SparseRules /\ IsError(TestValue)
NoOrdering == Thrown("TypeError", "", <<"No ordering relation is defined for complex numbers">>)

\* C6: if the operator throws on the entries at a coordinate the combinator
\* visits (or on the implicit zero and the scalar, for sparse x scalar), the
\* call throws one of those errors as it was thrown and returns no matrix; a
\* visited pair of complex entries makes the call throw, with the complex
\* ordering TypeError itself when nothing else throws; and the call throws
\* nothing when the operator throws nowhere.
C6_ErrorsAbort ==
    C6_Case =>
        /\ IF TestValueThrows \/ \E c \in VisitedCoords : IsError(Expected(c))
           THEN \/ TestValueThrows /\ result = TestValue
                \/ \E c \in VisitedCoords : IsError(Expected(c)) /\ result = Expected(c)
           ELSE ~IsError(result)
        /\ \A c \in VisitedCoords : ComplexPair(c) => IsError(result)
        /\ ( /\ \E c \in VisitedCoords : ComplexPair(c)
             /\ \A c \in VisitedCoords : IsError(Expected(c)) => ComplexPair(c)
             /\ ~TestValueThrows ) => result = NoOrdering

\* sparse x sparse throws on a complex pair although another entry compares
C6_Witness ==
    /\ C6_Case
    /\ rule = <<"SparseMatrix", "SparseMatrix">>
    /\ result = NoOrdering
    /\ \E c \in VisitedCoords : ~IsError(Expected(c))

(***************************************************************************)
(* C7.  Operands no signature matches.                                     *)
(***************************************************************************)
ScalarKinds == {"boolean", "number", "BigNumber", "Fraction", "Complex", "Unit"}

C7_Case == Done /\ ~IsCollection(X) /\ ~IsCollection(Y)

\* the typed function threw for want of a signature, running no implementation
NoSignature == rule = <<>> /\ result = TypeMismatch(name, X.kind, Y.kind)

ComparedAs(kind) == IF kind = "string" THEN "number" ELSE kind

C8_Case == Done /\ name = "smaller" /\ X.kind = "number" /\ Y.kind = "number"

\* |x - y| / max(|x|, |y|) against epsilon, cross-multiplied
RelativeDifferenceBelowEpsilon ==
    Abs(X.v - Y.v) * epsilon.den < Max2(Abs(X.v), Abs(Y.v)) * epsilon.num
RelativeDifferenceAboveEpsilon ==
    Abs(X.v - Y.v) * epsilon.den > Max2(Abs(X.v), Abs(Y.v)) * epsilon.num

SelectedRule(kx, ky) ==
    IF kx \in MatrixKinds /\ ky \in MatrixKinds THEN <<kx, ky>>
    ELSE IF kx = "Array" /\ ky = "Array" THEN <<"Array", "Array">>
    ELSE IF kx = "Array" /\ ky \in MatrixKinds THEN <<"Array", "Matrix">>
    ELSE IF kx \in MatrixKinds /\ ky = "Array" THEN <<"Matrix", "Array">>
    ELSE IF kx \in MatrixKinds THEN <<kx, "any">>
    ELSE IF ky \in MatrixKinds THEN <<"any", ky>>
    ELSE IF kx = "Array" THEN <<"Array", "any">>
    ELSE IF ky = "Array" THEN <<"any", "Array">>
    ELSE IF ComparedAs(kx) = ComparedAs(ky) /\ ComparedAs(kx) \in ScalarKinds
    THEN <<ComparedAs(kx), ComparedAs(kx)>>
    ELSE <<>>

WildcardRules ==
    {<<"SparseMatrix", "any">>, <<"DenseMatrix", "any">>, <<"any", "SparseMatrix">>,
     <<"any", "DenseMatrix">>, <<"Array", "any">>, <<"any", "Array">>}

\* C9: the call runs the one signature its operand kinds select: two
\* matrices their matrix x matrix signature, two Arrays 'Array, Array', an
\* Array and a matrix 'Array, Matrix' or 'Matrix, Array', and a signature
\* with the wildcard only when one operand is a scalar.
C9_Resolution ==
    Done =>
        /\ rule = SelectedRule(X.kind, Y.kind)
        /\ IsCollection(X) /\ IsCollection(Y) => rule \notin WildcardRules
        /\ rule \in WildcardRules =>
              \/ IsCollection(X) /\ ~IsCollection(Y)
              \/ ~IsCollection(X) /\ IsCollection(Y)

\* a sparse and a dense matrix run their own signature
C9_Witness ==
    /\ Done
    /\ rule = <<"SparseMatrix", "DenseMatrix">>
    /\ X.kind = "SparseMatrix" /\ Y.kind = "DenseMatrix"
    /\ ~IsError(result)

(***************************************************************************)
(* C10.  larger(x, y) and smaller(y, x).                                   *)
(***************************************************************************)
\* the other operator on the operands swapped, and on the operands as given
Dual == Call(Other(name), Y, X)
Opposite == Call(Other(name), X, Y)

\* both throw an error of the same class (the same error, for the errors an
\* implementation throws itself), or both return the same value
SameOutcome(r1, r2) ==
    IF IsError(r1) \/ IsError(r2)
    THEN /\ IsError(r1) /\ IsError(r2)
         /\ r1.error = r2.error
         /\ r1.error \in {"TypeError", "Error"} => r1 = r2
    ELSE r1 = r2

\* C10: larger(x, y) and smaller(y, x) return the same boolean or the same
\* matrix or Array, or both throw; larger(x, y) and smaller(x, y) are true at
\* no common coordinate; and an operand compared with itself is larger or
\* smaller nowhere.
C10_Duality ==
    Done =>
        /\ SameOutcome(result, Dual)
        /\ TrueEntries(result) \cap TrueEntries(Opposite) = {}
        /\ X = Y => TrueEntries(result) = {}

\* larger of a sparse matrix and a scalar keeps a true entry, sparse
C10_Witness ==
    /\ Done
    /\ name = "larger"
    /\ rule = <<"SparseMatrix", "any">>
    /\ result.kind = "SparseMatrix"
    /\ Len(result.values) > 0

====
